---- MODULE Spec2Model ----
(***************************************************************************)
(* Model of the Radio module (Examples/MC13213_SRB/SRB_SMAC/Common/Radio.c) *)
(* : the TxRx state machine, the receive-completion classifier, the event  *)
(* mapping, the inbound message queue and the contest responder.           *)
(*                                                                         *)
(* Strings are sequences of one-character strings without the terminating  *)
(* NUL; At(s, p) past the end reads the NUL.                                *)
(*                                                                         *)
(* Atomicity: RADIO_HandleState, RADIO_AppHandleEvent and the driver       *)
(* callbacks each run to completion.  A send operation is a sequence of    *)
(* such units: every evaluation of the busy-drain loop condition together  *)
(* with the code it leads to (one RADIO_HandleState call, or the buffer    *)
(* load, the forced TransmitData and the final step) is one unit, and      *)
(* callbacks and event handling may run between two units.                 *)
(***************************************************************************)
EXTENDS Integers, Sequences, FiniteSets, TLC

(* ---------------------------------------------------------------- bounds *)
MaxRx == 2        \* receive completions with a frame, and reset indications
MaxSends == 2     \* send operations started
MaxRxL == 1       \* frames received and reset indications in the liveness specification
MaxRxC == 2       \* frames received in the classifier specification
MaxRxQ == 5       \* frames received in the queue specification
MaxCalls == 2     \* QueueMessage calls in the slot specification
MaxMsgSize == 32  \* largest msgSize of those calls
MaxRxW == 2       \* frames received in the contest specifications

(* ------------------------------------------------------------- constants *)
RADIO_QUEUE_NOF_ITEMS == 8
RADIO_QUEUE_ITEM_SIZE == 32
SMAC1_RADIO_BUF_SIZE == 125

INITIAL == "Initial"
RESET == "Reset"
RECEIVER_ALWAYS_ON == "ReceiveAlwaysOn"
TRANSMIT_DATA == "TransmitData"
WAITING_FOR_ACK == "WaitingForAck"
TRANSMIT_ACK == "TransmitAck"
READY_FOR_TX_RX_DATA == "ReadyForTxRx"

RADIO_AppStatusKind ==
  {INITIAL, RESET, RECEIVER_ALWAYS_ON, TRANSMIT_DATA, WAITING_FOR_ACK,
   TRANSMIT_ACK, READY_FOR_TX_RX_DATA}

RADIO_QueueMsgKind == {"Sniff", "ContestQuestion", "ContestAnswer", "Accel"}

EVNT_RADIO ==
  {"Reset", "Timeout", "Ack", "Overflow", "Data", "Unknown"}

RADIO_PREFIX_STR == <<"E", "S", "T">>
RADIO_ACK_STR == <<"a", "c", "k">>
REMOTE_ACCEL_PREFIX == <<"x", "y", "z">>
ContestTrailer == <<" ", "J", "o", "e", " ", "T", "h", "e", "B", "e", "s", "t", "!">>

NUL == "NUL"

(* ------------------------------------------------------- string helpers *)
Min(a, b) == IF a < b THEN a ELSE b

At(s, p) == IF p >= 1 /\ p <= Len(s) THEN s[p] ELSE NUL

\* UTIL1_strncmp(s, t, n) == 0
StrNEq(s, t, n) ==
  \A i \in 1..n :
    \/ At(s, i) = At(t, i)
    \/ \E j \in 1..(i - 1) : At(s, j) = NUL /\ At(t, j) = NUL

\* UTIL1_strcpy / UTIL1_strcat into a buffer of bufSize bytes
StrCat(buf, bufSize, s) == SubSeq(buf \o s, 1, Min(Len(buf) + Len(s), bufSize - 1))

Digits == {"0", "1", "2", "3", "4", "5", "6", "7", "8", "9"}

DigitVal(c) ==
  CASE c = "0" -> 0 [] c = "1" -> 1 [] c = "2" -> 2 [] c = "3" -> 3
    [] c = "4" -> 4 [] c = "5" -> 5 [] c = "6" -> 6 [] c = "7" -> 7
    [] c = "8" -> 8 [] c = "9" -> 9 [] OTHER -> 99

DigitChar(d) ==
  CASE d = 0 -> "0" [] d = 1 -> "1" [] d = 2 -> "2" [] d = 3 -> "3"
    [] d = 4 -> "4" [] d = 5 -> "5" [] d = 6 -> "6" [] d = 7 -> "7"
    [] d = 8 -> "8" [] OTHER -> "9"

\* a character that ends a numeral in UTIL1_xatoi: c <= ' ' or c == '.'
IsNumEnd(c) == c \in {NUL, " ", "."}

\* variant: the spaces are not skipped
SkipSpaces_None(s, p) == p

RECURSIVE SkipSpaces(_, _)
SkipSpaces(s, p) == IF At(s, p) = " " THEN SkipSpaces(s, p + 1) ELSE p

RECURSIVE xatoiDigits(_, _, _, _)
xatoiDigits(s, p, r, val) ==
  IF IsNumEnd(At(s, p)) THEN [ok |-> TRUE, val |-> val, p |-> p]
  ELSE IF DigitVal(At(s, p)) >= r THEN [ok |-> FALSE, val |-> 0, p |-> p]
  ELSE xatoiDigits(s, p + 1, r, val * r + DigitVal(At(s, p)))

\* the numeral at p: decimal, or octal after a leading 0
xatoiNumeral(s, p) ==
  IF At(s, p) = "0"
  THEN (IF IsNumEnd(At(s, p + 1)) THEN [ok |-> TRUE, val |-> 0, p |-> p + 1]
        ELSE IF At(s, p + 1) \notin Digits THEN [ok |-> FALSE, val |-> 0, p |-> p + 1]
        ELSE xatoiDigits(s, p + 1, 8, 0))
  ELSE IF At(s, p) \notin Digits THEN [ok |-> FALSE, val |-> 0, p |-> p]
  ELSE xatoiDigits(s, p, 10, 0)

xatoiSign(r, neg) == IF r.ok /\ neg THEN [r EXCEPT !.val = 0 - r.val] ELSE r

\* the optional '-' at p and the numeral after it
xatoiSigned(s, p) ==
  xatoiSign(xatoiNumeral(s, IF At(s, p) = "-" THEN p + 1 ELSE p), At(s, p) = "-")

\* UTIL1_xatoi(&p, &val): skips leading spaces, optional '-', decimal or
\* (leading 0) octal digits up to a space, '.' or the end of the string.
\* Result: [ok, val, p], p the position the pointer is left at.
UTIL1_xatoi(s, p0) == xatoiSigned(s, SkipSpaces(s, p0))

\* (int8_t)val
ToInt8(v) == ((v + 128) % 256) - 128

RECURSIVE NumToStr(_)
NumToStr(n) == IF n < 10 THEN <<DigitChar(n)>> ELSE NumToStr(n \div 10) \o <<DigitChar(n % 10)>>

\* UTIL1_Num8sToStr / UTIL1_strcatNum8s: the parameter is a signed 8-bit value
Num8sToStr(v) ==
  LET n == ToInt8(v) IN IF n < 0 THEN <<"-">> \o NumToStr(0 - n) ELSE NumToStr(n)

\* C integer division truncates toward zero
CDiv(a, b) ==
  LET q == (IF a < 0 THEN 0 - a ELSE a) \div (IF b < 0 THEN 0 - b ELSE b)
  IN IF (a < 0) = (b < 0) THEN q ELSE 0 - q

(* ------------------------------------------------------ IsContestMessage *)
\* Result: [ok, isQuestion, a, b, op]; the outputs are read only when ok.
NoContest == [ok |-> FALSE, isQuestion |-> FALSE, a |-> 0, b |-> 0, op |-> NUL]

\* after "=" and the spaces behind it: '?' or a number
ContestResult(msg, ra, op, rb, p) ==
  IF At(msg, p) = "?"
  THEN [ok |-> TRUE, isQuestion |-> TRUE, a |-> ToInt8(ra.val),
        b |-> ToInt8(rb.val), op |-> op]
  ELSE IF ~UTIL1_xatoi(msg, p).ok THEN NoContest
  ELSE [ok |-> TRUE, isQuestion |-> FALSE, a |-> ToInt8(ra.val),
        b |-> ToInt8(rb.val), op |-> op]

ContestEquals(msg, ra, op, rb, p) ==
  IF At(msg, p) # "=" THEN NoContest
  ELSE ContestResult(msg, ra, op, rb, SkipSpaces(msg, p + 1))

ContestOperandB(msg, ra, op, rb) ==
  IF ~rb.ok THEN NoContest
  ELSE ContestEquals(msg, ra, op, rb, SkipSpaces(msg, rb.p))

ContestOperator(msg, ra, p) ==
  IF At(msg, p) \notin {"+", "-", "*", "/"} THEN NoContest
  ELSE ContestOperandB(msg, ra, At(msg, p), UTIL1_xatoi(msg, p + 1))

ContestOperandA(msg, ra) ==
  IF ~ra.ok THEN NoContest
  ELSE ContestOperator(msg, ra, SkipSpaces(msg, ra.p))

IsContestMessage(msg) == ContestOperandA(msg, UTIL1_xatoi(msg, 1))

(* ------------------------------------------------------ CalcResultString *)
CalcResultString(bufSize, opA, opB, op) ==
  LET b1 == StrCat(<<>>, bufSize, Num8sToStr(opA))
      b2 == StrCat(b1, bufSize, <<" ">>)
      b3 == StrCat(b2, bufSize, <<op>>)
      b4 == StrCat(b3, bufSize, <<" ">>)
      b5 == StrCat(b4, bufSize, Num8sToStr(opB))
      b6 == StrCat(b5, bufSize, <<" ", "=", " ">>)
      b7 == IF op = "+" THEN StrCat(b6, bufSize, Num8sToStr(opA + opB))
            ELSE IF op = "-" THEN StrCat(b6, bufSize, Num8sToStr(opA - opB))
            ELSE IF op = "*" THEN StrCat(b6, bufSize, Num8sToStr(opA * opB))
            ELSE IF op = "/"
                 THEN (IF opB # 0 THEN StrCat(b6, bufSize, Num8sToStr(CDiv(opA, opB)))
                       ELSE StrCat(b6, bufSize, <<"E", "R", "R", "O", "R">>))
            ELSE b6
  IN StrCat(b7, bufSize, ContestTrailer)

(* ------------------------------------------------------------ variables *)
VARIABLES
  RADIO_AppStatus,   \* current state of the TxRx state machine
  RADIO_isOn, RADIO_isSniffing, RADIO_isContest,
  RADIO_TxPacket,    \* [data, len]: Tx buffer contents and u8DataLength
  rxMode,            \* driver: "idle", "forever" or "timed" receive armed
  events,            \* event flags set and not yet handled
  RADIO_MsgQueue,    \* queue of slots [kind, size, data, id]
  pc,                \* task context: "idle", or "drain" inside a send
  sendArg,           \* the send in progress: its argument, and (history) the
                     \* state the machine was in when it was called
  lastOp,            \* history: the operation of the last step and its inputs
  drvLog,            \* history: driver requests issued by the last step
  accepted,          \* history: ids of the slots the queue accepted, in order
  delivered,         \* history: ids of the slots handed to RADIO_HandleMessage
  offers,            \* history: number of QueueMessage calls
  rxLeft, sendsLeft, \* remaining environment budget
  RADIO_Channel, RADIO_OutputPower,  \* effective channel and output power
  ContestCalcExpectedResultStr,      \* cached expected answer of the last challenge
  nodes              \* the two nodes of a link, when a system of two is studied

vars == <<RADIO_AppStatus, RADIO_isOn, RADIO_isSniffing, RADIO_isContest,
          RADIO_TxPacket, rxMode, events, RADIO_MsgQueue, pc, sendArg,
          lastOp, drvLog, accepted, delivered, offers, rxLeft, sendsLeft,
          RADIO_Channel, RADIO_OutputPower, ContestCalcExpectedResultStr, nodes>>

\* the variables of the single node
oneNode == <<RADIO_AppStatus, RADIO_isOn, RADIO_isSniffing, RADIO_isContest,
             RADIO_TxPacket, rxMode, events, RADIO_MsgQueue, pc, sendArg,
             lastOp, drvLog, accepted, delivered, offers, rxLeft, sendsLeft,
             RADIO_Channel, RADIO_OutputPower, ContestCalcExpectedResultStr>>

flags == <<RADIO_isOn, RADIO_isSniffing, RADIO_isContest>>
hist == <<accepted, delivered, offers>>
radioConf == <<RADIO_Channel, RADIO_OutputPower>>

NoCalc == [a |-> 0, b |-> 0, op |-> NUL]

\* no second node: the node is studied alone
NoNodes == <<>>

\* calc: the operation whose result string is cached when the send returns
NoSend == [prefix |-> FALSE, data |-> <<>>, from |-> "none", calc |-> NoCalc]

(* ------------------------------------------------------- driver adapter *)
\* d = [rx, log]: armed receive and the requests issued so far in this step
Req(d, r, a) == Append(d.log, [req |-> r, arg |-> a, armed |-> d.rx # "idle"])

SMAC1_MLMERXEnableRequest(d, timeout, acc) ==
  [rx |-> IF d.rx = "idle" \/ acc THEN timeout ELSE d.rx,
   log |-> Req(d, "enable", timeout)]

SMAC1_MLMERXDisableRequest(d, ok) ==
  [rx |-> IF ok THEN "idle" ELSE d.rx, log |-> Req(d, "disable", <<>>)]

SMAC1_MCPSDataRequest(d, frame) == [rx |-> d.rx, log |-> Req(d, "tx", frame)]

SMAC1_RadioInit(d) == [rx |-> "idle", log |-> Req(d, "init", <<>>)]

(* ---------------------------------------------------- RADIO_HandleState *)
\* One step of the state machine.  in = [dis, tx, acc]: results of the
\* disable and transmit requests, and whether an enable request issued
\* while a receive is armed replaces the armed receive.
AckFrame == StrCat(<<>>, SMAC1_RADIO_BUF_SIZE, RADIO_PREFIX_STR \o RADIO_ACK_STR)

\* variant: the Reset state makes the machine ready without the driver
RADIO_HandleState_ResetSkips(st, d, txPacket, isContest, in) ==
  CASE st = INITIAL -> [st |-> RECEIVER_ALWAYS_ON, d |-> d]
    [] st = RECEIVER_ALWAYS_ON ->
         [st |-> READY_FOR_TX_RX_DATA,
          d |-> SMAC1_MLMERXEnableRequest(d, "forever", in.acc)]
    [] st = READY_FOR_TX_RX_DATA -> [st |-> st, d |-> d]
    [] st = TRANSMIT_DATA ->
         LET d1 == SMAC1_MLMERXDisableRequest(d, in.dis)
             d2 == SMAC1_MCPSDataRequest(d1, txPacket.data)
         IN IF ~in.dis THEN [st |-> TRANSMIT_DATA, d |-> d1]
            ELSE IF in.tx
                 THEN [st |-> IF isContest THEN RECEIVER_ALWAYS_ON ELSE WAITING_FOR_ACK,
                       d |-> SMAC1_MLMERXEnableRequest(d2, "timed", in.acc)]
                 ELSE [st |-> RECEIVER_ALWAYS_ON, d |-> d2]
    [] st = TRANSMIT_ACK ->
         [st |-> RECEIVER_ALWAYS_ON, d |-> SMAC1_MCPSDataRequest(d, AckFrame)]
    [] st = RESET -> [st |-> READY_FOR_TX_RX_DATA, d |-> d]
    [] st = WAITING_FOR_ACK -> [st |-> st, d |-> d]
    [] OTHER -> [st |-> st, d |-> d]

\* variant: the result of the disable request is not looked at
RADIO_HandleState_DisableIgnored(st, d, txPacket, isContest, in) ==
  CASE st = INITIAL -> [st |-> RECEIVER_ALWAYS_ON, d |-> d]
    [] st = RECEIVER_ALWAYS_ON ->
         [st |-> READY_FOR_TX_RX_DATA,
          d |-> SMAC1_MLMERXEnableRequest(d, "forever", in.acc)]
    [] st = READY_FOR_TX_RX_DATA -> [st |-> st, d |-> d]
    [] st = TRANSMIT_DATA ->
         LET d1 == SMAC1_MLMERXDisableRequest(d, in.dis)
             d2 == SMAC1_MCPSDataRequest(d1, txPacket.data)
         IN IF in.tx
            THEN [st |-> IF isContest THEN RECEIVER_ALWAYS_ON ELSE WAITING_FOR_ACK,
                  d |-> SMAC1_MLMERXEnableRequest(d2, "timed", in.acc)]
            ELSE [st |-> RECEIVER_ALWAYS_ON, d |-> d2]
    [] st = TRANSMIT_ACK ->
         [st |-> RECEIVER_ALWAYS_ON, d |-> SMAC1_MCPSDataRequest(d, AckFrame)]
    [] st = RESET -> [st |-> INITIAL, d |-> SMAC1_RadioInit(d)]
    [] st = WAITING_FOR_ACK -> [st |-> st, d |-> d]
    [] OTHER -> [st |-> st, d |-> d]

\* variant: an acknowledge is waited for in contest mode too
RADIO_HandleState_ContestWaits(st, d, txPacket, isContest, in) ==
  CASE st = INITIAL -> [st |-> RECEIVER_ALWAYS_ON, d |-> d]
    [] st = RECEIVER_ALWAYS_ON ->
         [st |-> READY_FOR_TX_RX_DATA,
          d |-> SMAC1_MLMERXEnableRequest(d, "forever", in.acc)]
    [] st = READY_FOR_TX_RX_DATA -> [st |-> st, d |-> d]
    [] st = TRANSMIT_DATA ->
         LET d1 == SMAC1_MLMERXDisableRequest(d, in.dis)
             d2 == SMAC1_MCPSDataRequest(d1, txPacket.data)
         IN IF ~in.dis THEN [st |-> TRANSMIT_DATA, d |-> d1]
            ELSE IF in.tx
                 THEN [st |-> WAITING_FOR_ACK,
                       d |-> SMAC1_MLMERXEnableRequest(d2, "timed", in.acc)]
                 ELSE [st |-> RECEIVER_ALWAYS_ON, d |-> d2]
    [] st = TRANSMIT_ACK ->
         [st |-> RECEIVER_ALWAYS_ON, d |-> SMAC1_MCPSDataRequest(d, AckFrame)]
    [] st = RESET -> [st |-> INITIAL, d |-> SMAC1_RadioInit(d)]
    [] st = WAITING_FOR_ACK -> [st |-> st, d |-> d]
    [] OTHER -> [st |-> st, d |-> d]

\* variant: the acknowledge is sent again until its transmit request succeeds
RADIO_HandleState_AckRetries(st, d, txPacket, isContest, in) ==
  CASE st = INITIAL -> [st |-> RECEIVER_ALWAYS_ON, d |-> d]
    [] st = RECEIVER_ALWAYS_ON ->
         [st |-> READY_FOR_TX_RX_DATA,
          d |-> SMAC1_MLMERXEnableRequest(d, "forever", in.acc)]
    [] st = READY_FOR_TX_RX_DATA -> [st |-> st, d |-> d]
    [] st = TRANSMIT_DATA ->
         LET d1 == SMAC1_MLMERXDisableRequest(d, in.dis)
             d2 == SMAC1_MCPSDataRequest(d1, txPacket.data)
         IN IF ~in.dis THEN [st |-> TRANSMIT_DATA, d |-> d1]
            ELSE IF in.tx
                 THEN [st |-> IF isContest THEN RECEIVER_ALWAYS_ON ELSE WAITING_FOR_ACK,
                       d |-> SMAC1_MLMERXEnableRequest(d2, "timed", in.acc)]
                 ELSE [st |-> RECEIVER_ALWAYS_ON, d |-> d2]
    [] st = TRANSMIT_ACK ->
         [st |-> IF in.tx THEN RECEIVER_ALWAYS_ON ELSE TRANSMIT_ACK,
          d |-> SMAC1_MCPSDataRequest(d, AckFrame)]
    [] st = RESET -> [st |-> INITIAL, d |-> SMAC1_RadioInit(d)]
    [] st = WAITING_FOR_ACK -> [st |-> st, d |-> d]
    [] OTHER -> [st |-> st, d |-> d]

RADIO_HandleState(st, d, txPacket, isContest, in) ==
  CASE st = INITIAL -> [st |-> RECEIVER_ALWAYS_ON, d |-> d]
    [] st = RECEIVER_ALWAYS_ON ->
         [st |-> READY_FOR_TX_RX_DATA,
          d |-> SMAC1_MLMERXEnableRequest(d, "forever", in.acc)]
    [] st = READY_FOR_TX_RX_DATA -> [st |-> st, d |-> d]
    [] st = TRANSMIT_DATA ->
         LET d1 == SMAC1_MLMERXDisableRequest(d, in.dis)
             d2 == SMAC1_MCPSDataRequest(d1, txPacket.data)
         IN IF ~in.dis THEN [st |-> TRANSMIT_DATA, d |-> d1]
            ELSE IF in.tx
                 THEN [st |-> IF isContest THEN RECEIVER_ALWAYS_ON ELSE WAITING_FOR_ACK,
                       d |-> SMAC1_MLMERXEnableRequest(d2, "timed", in.acc)]
                 ELSE [st |-> RECEIVER_ALWAYS_ON, d |-> d2]
    [] st = TRANSMIT_ACK ->
         [st |-> RECEIVER_ALWAYS_ON, d |-> SMAC1_MCPSDataRequest(d, AckFrame)]
    [] st = RESET -> [st |-> INITIAL, d |-> SMAC1_RadioInit(d)]
    [] st = WAITING_FOR_ACK -> [st |-> st, d |-> d]
    [] OTHER -> [st |-> st, d |-> d]

(* -------------------------------------------------- RADIO_AppHandleEvent *)
\* variant: the Timeout case is missing from the switch
AppHandleEvent_NoTimeout(st, event) ==
  CASE event = "Reset" -> RESET
    [] event = "Ack" -> RECEIVER_ALWAYS_ON
    [] event = "Overflow" -> RECEIVER_ALWAYS_ON
    [] event = "Data" -> TRANSMIT_ACK
    [] event = "Unknown" -> RECEIVER_ALWAYS_ON
    [] OTHER -> st

\* variant: the Timeout event makes the machine ready at once
AppHandleEvent_TimeoutReady(st, event) ==
  CASE event = "Reset" -> RESET
    [] event = "Timeout" -> READY_FOR_TX_RX_DATA
    [] event = "Ack" -> RECEIVER_ALWAYS_ON
    [] event = "Overflow" -> RECEIVER_ALWAYS_ON
    [] event = "Data" -> TRANSMIT_ACK
    [] event = "Unknown" -> RECEIVER_ALWAYS_ON
    [] OTHER -> st

\* variant: the Unknown case is missing from the switch
AppHandleEvent_NoUnknown(st, event) ==
  CASE event = "Reset" -> RESET
    [] event = "Timeout" -> RECEIVER_ALWAYS_ON
    [] event = "Ack" -> RECEIVER_ALWAYS_ON
    [] event = "Overflow" -> RECEIVER_ALWAYS_ON
    [] event = "Data" -> TRANSMIT_ACK
    [] OTHER -> st

RADIO_AppHandleEvent(st, event) ==
  CASE event = "Reset" -> RESET
    [] event = "Timeout" -> RECEIVER_ALWAYS_ON
    [] event = "Ack" -> RECEIVER_ALWAYS_ON
    [] event = "Overflow" -> RECEIVER_ALWAYS_ON
    [] event = "Data" -> TRANSMIT_ACK
    [] event = "Unknown" -> RECEIVER_ALWAYS_ON
    [] OTHER -> st

(* ---------------------------------------------------------------- queue *)
xQueueSendToBackFromISR(q, item) ==
  IF Len(q) < RADIO_QUEUE_NOF_ITEMS THEN Append(q, item) ELSE q

\* variant: the slot is sent to the front of the queue
QueueMessage_ToFront(q, kind, msg, msgSize, id) ==
  LET n == Min(Min(msgSize, Len(msg)), RADIO_QUEUE_ITEM_SIZE - 2)
  IN IF Len(q) < RADIO_QUEUE_NOF_ITEMS
     THEN <<[kind |-> kind, size |-> msgSize, data |-> SubSeq(msg, 1, n), id |-> id]>> \o q
     ELSE q

\* msg: the bytes at the source address (string and its NUL), msgSize: the
\* length given; id: history tag, the number of this QueueMessage call
QueueMessage(q, kind, msg, msgSize, id) ==
  LET n == Min(Min(msgSize, Len(msg)), RADIO_QUEUE_ITEM_SIZE - 2)
  IN xQueueSendToBackFromISR(q,
       [kind |-> kind, size |-> msgSize, data |-> SubSeq(msg, 1, n), id |-> id])

\* the C string stored in a slot's payload
RECURSIVE CStr(_)
CStr(b) == IF b = <<>> \/ Head(b) = NUL THEN <<>> ELSE <<Head(b)>> \o CStr(Tail(b))

(* -------------------------------------------- RADIO_DataIndicationPacket *)
\* variant: the sniff copy is not queued
SniffCopy_Never(sniffing) == <<>>

\* the QueueMessage call made for a good packet when sniffing
SniffCopy(sniffing) == IF sniffing THEN <<"Sniff">> ELSE <<>>

\* variant: the state is not looked at
IsAckPacket_AnyState(st, data) ==
  StrNEq(data, RADIO_PREFIX_STR \o RADIO_ACK_STR, Len(RADIO_PREFIX_STR \o RADIO_ACK_STR))

\* "is it our acknowledge packet?"
IsAckPacket(st, data) ==
  /\ st = WAITING_FOR_ACK
  /\ StrNEq(data, RADIO_PREFIX_STR \o RADIO_ACK_STR, Len(RADIO_PREFIX_STR \o RADIO_ACK_STR))

\* variant: contest mode is not looked at
IsContestPacket_Always(contest, data) == IsContestMessage(data).ok

IsContestPacket(contest, data) == contest /\ IsContestMessage(data).ok

\* Result: the events set and the QueueMessage calls made, in order.
RADIO_DataIndicationPacket(status, data, st, sniffing, contest) ==
  LET cm == IsContestMessage(data)
      sniff == SniffCopy(sniffing)
  IN IF status = "Timeout" THEN [ev |-> <<"Timeout">>, enq |-> <<>>]
     ELSE IF status = "Success"
          THEN (IF IsAckPacket(st, data)
                THEN [ev |-> <<"Ack">>, enq |-> sniff]
                ELSE IF IsContestPacket(contest, data)
                     THEN [ev |-> <<"Data">>,
                           enq |-> sniff \o (IF cm.isQuestion THEN <<"ContestQuestion">>
                                             ELSE <<"ContestAnswer">>)]
                ELSE IF StrNEq(data, RADIO_PREFIX_STR, Len(RADIO_PREFIX_STR))
                     THEN [ev |-> <<"Data">>,
                           enq |-> sniff \o
                             (IF StrNEq(data, RADIO_PREFIX_STR \o REMOTE_ACCEL_PREFIX,
                                        Len(RADIO_PREFIX_STR \o REMOTE_ACCEL_PREFIX))
                              THEN <<"Accel">> ELSE <<>>)]
                ELSE [ev |-> <<"Unknown">>, enq |-> sniff])
     ELSE IF status = "Overflow" THEN [ev |-> <<"Overflow">>, enq |-> <<>>]
     ELSE [ev |-> <<>>, enq |-> <<>>]

RECURSIVE EnqueueAll(_, _, _, _)
EnqueueAll(q, kinds, data, id) ==
  IF kinds = <<>> THEN q
  ELSE EnqueueAll(QueueMessage(q, Head(kinds), data \o <<NUL>>, Len(data) + 1, id + 1),
                  Tail(kinds), data, id + 1)

SeqToSet(s) == {s[i] : i \in 1..Len(s)}

\* history: of the calls numbered lo..hi, those whose slot is in the queue
RECURSIVE StoredIds(_, _, _)
StoredIds(q, lo, hi) ==
  IF lo > hi THEN <<>>
  ELSE (IF \E j \in 1..Len(q) : q[j].id = lo THEN <<lo>> ELSE <<>>)
       \o StoredIds(q, lo + 1, hi)

(* ------------------------------------------------------ send operations *)
\* loop condition of the busy-drain: the send proceeds when this holds
\* variant: the send does not wait for the state machine
SendReady_NoDrain(st) == TRUE

SendReady(st) == st = READY_FOR_TX_RX_DATA

\* RADIO_SendString (prefix) and RADIO_SendStringRaw: the Tx packet loaded
LoadTxPacket(arg) ==
  LET buf == IF arg.prefix
             THEN StrCat(StrCat(<<>>, SMAC1_RADIO_BUF_SIZE, RADIO_PREFIX_STR),
                         SMAC1_RADIO_BUF_SIZE, arg.data)
             ELSE StrCat(<<>>, SMAC1_RADIO_BUF_SIZE, arg.data)
  IN [data |-> buf, len |-> Len(buf) + 1]

\* RespondWithAnswer: the raw frame sent for a queued question, or <<>>
AnswerFor(cm) ==
  IF cm.ok /\ cm.isQuestion THEN CalcResultString(36, cm.a, cm.b, cm.op) ELSE <<>>

RespondWithAnswer(msg) == AnswerFor(IsContestMessage(msg))

DriverInputs == [dis : BOOLEAN, tx : BOOLEAN, acc : BOOLEAN]

(* ----------------------------------------------------------------- Init *)
Init ==
  /\ RADIO_AppStatus = INITIAL
  /\ RADIO_isOn = TRUE
  /\ RADIO_isSniffing = FALSE
  /\ RADIO_isContest = FALSE
  /\ RADIO_TxPacket = [data |-> <<>>, len |-> 0]
  /\ rxMode = "idle"
  /\ events = {}
  /\ RADIO_MsgQueue = <<>>
  /\ pc = "idle"
  /\ sendArg = NoSend
  /\ lastOp = [op |-> "init"]
  /\ drvLog = <<>>
  /\ accepted = <<>>
  /\ delivered = <<>>
  /\ offers = 0
  /\ rxLeft = MaxRx
  /\ sendsLeft = MaxSends
  /\ RADIO_Channel = 5
  /\ RADIO_OutputPower = 15
  /\ ContestCalcExpectedResultStr = <<>>
  /\ nodes = NoNodes

\* variant: the queue is polled until it is empty
PolledCount_All(q) == Len(q)

\* messages one call of RADIO_Handle receives from the queue
PolledCount(q) == IF q # <<>> THEN 1 ELSE 0

(* -------------------------------------------------------------- actions *)
\* RADIO_HandleMessage for the n messages polled from q: the answer frame
\* to send for a contest question, or <<>>
RADIO_HandleMessage(q, n) ==
  IF n > 0 /\ Head(q).kind = "ContestQuestion"
  THEN RespondWithAnswer(CStr(Head(q).data)) ELSE <<>>

\* variant: the winner is reported when the comparison finds no difference
WinReported_OnEqual(q, n, expected) ==
  /\ n > 0
  /\ Head(q).kind = "ContestAnswer"
  /\ StrNEq(Head(q).data, expected, Len(expected))

\* RADIO_HandleMessage for a contest answer: the winner message is printed
\* when UTIL1_strncmp over the length of the cached string returns non-zero
WinReported(q, n, expected) ==
  /\ n > 0
  /\ Head(q).kind = "ContestAnswer"
  /\ ~StrNEq(Head(q).data, expected, Len(expected))

\* the effect of RADIO_Handle: m the result of the state machine step, n the
\* number of messages polled, answer the frame RADIO_HandleMessage sends,
\* win whether it reports a winner
HandleDone(m, n, answer, win) ==
  /\ RADIO_AppStatus' = m.st
  /\ rxMode' = m.d.rx
  /\ drvLog' = m.d.log
  /\ RADIO_MsgQueue' = SubSeq(RADIO_MsgQueue, n + 1, Len(RADIO_MsgQueue))
  /\ delivered' = delivered \o [i \in 1..n |-> RADIO_MsgQueue[i].id]
  /\ pc' = IF answer # <<>> /\ RADIO_isOn THEN "drain" ELSE "idle"
  /\ sendArg' = IF answer # <<>> /\ RADIO_isOn
                 THEN [prefix |-> FALSE, data |-> answer, from |-> m.st, calc |-> NoCalc]
                 ELSE NoSend
  /\ lastOp' = [op |-> "handle", win |-> win]

\* RADIO_Handle: one step of the state machine when on, then one poll of
\* the queue and the dispatch of the message polled
RADIO_Handle(in) ==
  /\ pc = "idle"
  /\ HandleDone(IF RADIO_isOn
                THEN RADIO_HandleState(RADIO_AppStatus, [rx |-> rxMode, log |-> <<>>],
                                       RADIO_TxPacket, RADIO_isContest, in)
                ELSE [st |-> RADIO_AppStatus, d |-> [rx |-> rxMode, log |-> <<>>]],
                PolledCount(RADIO_MsgQueue),
                RADIO_HandleMessage(RADIO_MsgQueue, PolledCount(RADIO_MsgQueue)),
                WinReported(RADIO_MsgQueue, PolledCount(RADIO_MsgQueue),
                            ContestCalcExpectedResultStr))
  /\ UNCHANGED <<nodes, flags, RADIO_TxPacket, events, accepted, offers, rxLeft, sendsLeft,
                 radioConf, ContestCalcExpectedResultStr>>

\* one unit of a send operation: a busy-drain iteration, or the load of the
\* Tx packet, the forced TransmitData and the final step
SendUnit(in) ==
  /\ pc = "drain"
  /\ IF ~SendReady(RADIO_AppStatus)
     THEN LET m == RADIO_HandleState(RADIO_AppStatus, [rx |-> rxMode, log |-> <<>>],
                                     RADIO_TxPacket, RADIO_isContest, in)
          IN /\ RADIO_AppStatus' = m.st
             /\ rxMode' = m.d.rx
             /\ drvLog' = m.d.log
             /\ lastOp' = [op |-> "drain"]
             /\ UNCHANGED <<RADIO_TxPacket, pc, sendArg, ContestCalcExpectedResultStr>>
     ELSE LET pkt == LoadTxPacket(sendArg)
              m == RADIO_HandleState(TRANSMIT_DATA, [rx |-> rxMode, log |-> <<>>],
                                     pkt, RADIO_isContest, in)
          IN /\ RADIO_TxPacket' = pkt
             /\ RADIO_AppStatus' = m.st
             /\ rxMode' = m.d.rx
             /\ drvLog' = m.d.log
             /\ pc' = "idle"
             /\ sendArg' = NoSend
             /\ lastOp' = [op |-> "load", from |-> sendArg.from]
             /\ ContestCalcExpectedResultStr' =
                  IF sendArg.calc = NoCalc THEN ContestCalcExpectedResultStr
                  ELSE CalcResultString(16, sendArg.calc.a, sendArg.calc.b, sendArg.calc.op)
  /\ UNCHANGED <<nodes, flags, events, RADIO_MsgQueue, hist, rxLeft, sendsLeft,
                 radioConf>>

\* the effect of a completion: r the result of RADIO_DataIndicationPacket,
\* q the queue after its QueueMessage calls
RxStored(status, data, r, q) ==
  /\ events' = events \cup SeqToSet(r.ev)
  /\ RADIO_MsgQueue' = q
  /\ accepted' = accepted \o StoredIds(q, offers + 1, offers + Len(r.enq))
  /\ offers' = offers + Len(r.enq)
  /\ lastOp' = [op |-> "rxdone", status |-> status, data |-> data,
                ev |-> r.ev, enq |-> r.enq,
                before |-> Len(RADIO_MsgQueue)]

RxClassified(status, data, r) ==
  RxStored(status, data, r, EnqueueAll(RADIO_MsgQueue, r.enq, data, offers))

\* the driver's receive-completion callback
RxDone(status, data) ==
  /\ rxMode # "idle"
  /\ status = "Timeout" => rxMode = "timed" /\ data = <<>>
  /\ status # "Timeout" => rxLeft > 0
  /\ RxClassified(status, data,
                  RADIO_DataIndicationPacket(status, data, RADIO_AppStatus,
                                             RADIO_isSniffing, RADIO_isContest))
  /\ rxMode' = "idle"
  /\ rxLeft' = IF status = "Timeout" THEN rxLeft ELSE rxLeft - 1
  /\ drvLog' = <<>>
  /\ UNCHANGED <<nodes, RADIO_AppStatus, flags, RADIO_TxPacket, pc, sendArg, delivered, sendsLeft,
                 radioConf, ContestCalcExpectedResultStr>>

\* RADIO_ResetIndication: the driver's reset callback
RADIO_ResetIndication ==
  /\ rxLeft > 0
  /\ rxLeft' = rxLeft - 1
  /\ events' = events \cup {"Reset"}
  /\ lastOp' = [op |-> "resetind"]
  /\ drvLog' = <<>>
  /\ UNCHANGED <<nodes, RADIO_AppStatus, flags, RADIO_TxPacket, rxMode, RADIO_MsgQueue,
                 pc, sendArg, hist, sendsLeft,
                 radioConf, ContestCalcExpectedResultStr>>

\* the event dispatcher hands one pending event to RADIO_AppHandleEvent
HandleEvent(e) ==
  /\ e \in events
  /\ events' = events \ {e}
  /\ RADIO_AppStatus' = RADIO_AppHandleEvent(RADIO_AppStatus, e)
  /\ lastOp' = [op |-> "event", ev |-> e, pre |-> RADIO_AppStatus]
  /\ drvLog' = <<>>
  /\ UNCHANGED <<nodes, flags, RADIO_TxPacket, rxMode, RADIO_MsgQueue, pc, sendArg,
                 hist, rxLeft, sendsLeft,
                 radioConf, ContestCalcExpectedResultStr>>

\* RADIO_ParseCommand: "radio on|off", "radio sniff on|off", "radio contest on|off"
CmdFlag(name, b) ==
  /\ pc = "idle"
  /\ RADIO_isOn' = IF name = "on" THEN b ELSE RADIO_isOn
  /\ RADIO_isSniffing' = IF name = "sniff" THEN b ELSE RADIO_isSniffing
  /\ RADIO_isContest' = IF name = "contest" THEN b ELSE RADIO_isContest
  /\ flags' # flags
  /\ lastOp' = [op |-> "cmd"]
  /\ drvLog' = <<>>
  /\ UNCHANGED <<nodes, RADIO_AppStatus, RADIO_TxPacket, rxMode, events, RADIO_MsgQueue,
                 pc, sendArg, hist, rxLeft, sendsLeft,
                 radioConf, ContestCalcExpectedResultStr>>

\* RADIO_ParseCommand: "radio send <text>" calls RADIO_SendString
CmdSend(text) ==
  /\ pc = "idle"
  /\ sendsLeft > 0
  /\ sendsLeft' = sendsLeft - 1
  /\ pc' = IF RADIO_isOn THEN "drain" ELSE "idle"
  /\ sendArg' = IF RADIO_isOn
                THEN [prefix |-> TRUE, data |-> text, from |-> RADIO_AppStatus,
                      calc |-> NoCalc]
                ELSE NoSend
  /\ lastOp' = [op |-> "send"]
  /\ drvLog' = <<>>
  /\ UNCHANGED <<nodes, RADIO_AppStatus, flags, RADIO_TxPacket, rxMode, events,
                 RADIO_MsgQueue, hist, rxLeft,
                 radioConf, ContestCalcExpectedResultStr>>

\* the challenge text "a op b = ?" built in a buffer of 16 bytes
ChallengeString(a, b, op) ==
  StrCat(StrCat(StrCat(StrCat(StrCat(StrCat(<<>>, 16, Num8sToStr(a)), 16, <<" ">>),
                              16, <<op>>), 16, <<" ">>), 16, Num8sToStr(b)),
         16, <<" ", "=", " ", "?">>)

\* the challenge command once its argument was parsed as cm: the raw send
\* of the challenge text, and the result string cached after the send
\* returned (at once when the radio is off)
ChallengeParsed(text, cm) ==
  /\ pc' = IF cm.ok /\ RADIO_isOn THEN "drain" ELSE "idle"
  /\ sendArg' = IF cm.ok /\ RADIO_isOn
                THEN [prefix |-> FALSE, data |-> ChallengeString(cm.a, cm.b, cm.op),
                      from |-> RADIO_AppStatus,
                      calc |-> [a |-> cm.a, b |-> cm.b, op |-> cm.op]]
                ELSE NoSend
  /\ ContestCalcExpectedResultStr' =
       IF cm.ok /\ ~RADIO_isOn THEN CalcResultString(16, cm.a, cm.b, cm.op)
       ELSE ContestCalcExpectedResultStr
  /\ lastOp' = [op |-> "challenge", text |-> text, ok |-> cm.ok]

\* RADIO_ParseCommand: "radio challenge <text>"
CmdChallenge(text) ==
  /\ pc = "idle"
  /\ sendsLeft > 0
  /\ sendsLeft' = sendsLeft - 1
  /\ ChallengeParsed(text, IsContestMessage(text))
  /\ drvLog' = <<>>
  /\ UNCHANGED <<nodes, RADIO_AppStatus, flags, RADIO_TxPacket, rxMode, events,
                 RADIO_MsgQueue, hist, rxLeft, radioConf>>

\* the C operator & on unsigned values
RECURSIVE BitAnd(_, _)
BitAnd(a, b) ==
  IF a = 0 \/ b = 0 THEN 0
  ELSE (a % 2) * (b % 2) + 2 * BitAnd(a \div 2, b \div 2)

\* the values of a uint8_t parameter
UInt8 == 0..255

\* variant: the value is stored as given
ChannelOf_Unmasked(ch) == ch

\* ch&0xF and power&0xF
ChannelOf(ch) == BitAnd(ch, 15)

\* variant: the value is limited to 15
PowerOf_Limited(power) == IF power > 15 THEN 15 ELSE power

PowerOf(power) == BitAnd(power, 15)

\* RADIO_SetChannel(ch): stores the masked channel and forwards it to the driver
RADIO_SetChannel(ch) ==
  /\ RADIO_Channel' = ChannelOf(ch)
  /\ drvLog' = Req([rx |-> rxMode, log |-> <<>>], "channel", RADIO_Channel')
  /\ UNCHANGED RADIO_OutputPower

\* RADIO_SetOutputPower(power)
RADIO_SetOutputPower(power) ==
  /\ RADIO_OutputPower' = PowerOf(power)
  /\ drvLog' = Req([rx |-> rxMode, log |-> <<>>], "power", RADIO_OutputPower')
  /\ UNCHANGED RADIO_Channel

\* a call of RADIO_SetChannel or RADIO_SetOutputPower with the value n
SetCall(which, n) ==
  /\ pc = "idle"
  /\ IF which = "channel" THEN RADIO_SetChannel(n) ELSE RADIO_SetOutputPower(n)
  /\ lastOp' = [op |-> "set", which |-> which, n |-> n]
  /\ UNCHANGED <<nodes, RADIO_AppStatus, flags, RADIO_TxPacket, rxMode, events, RADIO_MsgQueue,
                 pc, sendArg, hist, rxLeft, sendsLeft, ContestCalcExpectedResultStr>>

\* RADIO_ParseCommand: "radio channel <number>" and "radio power <number>";
\* arg is the text after the command word and one more character
CmdSet(which, arg) ==
  /\ pc = "idle"
  /\ IF UTIL1_xatoi(arg, 1).ok /\ UTIL1_xatoi(arg, 1).val >= 0
        /\ UTIL1_xatoi(arg, 1).val <= 15
     THEN /\ IF which = "channel" THEN RADIO_SetChannel(UTIL1_xatoi(arg, 1).val % 256)
             ELSE RADIO_SetOutputPower(UTIL1_xatoi(arg, 1).val % 256)
          /\ lastOp' = [op |-> "cmdset", which |-> which, arg |-> arg, res |-> "ok"]
     ELSE /\ drvLog' = <<>>
          /\ lastOp' = [op |-> "cmdset", which |-> which, arg |-> arg, res |-> "failed"]
          /\ UNCHANGED radioConf
  /\ UNCHANGED <<nodes, RADIO_AppStatus, flags, RADIO_TxPacket, rxMode, events, RADIO_MsgQueue,
                 pc, sendArg, hist, rxLeft, sendsLeft, ContestCalcExpectedResultStr>>

\* n bytes at the source address of a QueueMessage call, the string's NUL last
Bytes(n) == [i \in 1..n |-> IF i = n THEN NUL ELSE "a"]

\* one call QueueMessage(kind, msg, n) from the callback context
QueueCall(kind, n) ==
  /\ rxLeft > 0
  /\ rxLeft' = rxLeft - 1
  /\ RADIO_MsgQueue' = QueueMessage(RADIO_MsgQueue, kind, Bytes(n), n, offers + 1)
  /\ accepted' = accepted \o StoredIds(RADIO_MsgQueue', offers + 1, offers + 1)
  /\ offers' = offers + 1
  /\ lastOp' = [op |-> "queue", kind |-> kind, size |-> n]
  /\ drvLog' = <<>>
  /\ UNCHANGED <<nodes, RADIO_AppStatus, flags, RADIO_TxPacket, rxMode, events, pc,
                 sendArg, delivered, sendsLeft,
                 radioConf, ContestCalcExpectedResultStr>>

(* ------------------------------------------------------------ the inputs *)
P_Ack == <<"E", "S", "T", "a", "c", "k">>
P_App == <<"E", "S", "T", "h", "i">>
P_Accel == <<"E", "S", "T", "x", "y", "z", "1">>
P_Question == <<"3", " ", "+", " ", "4", " ", "=", " ", "?">>
P_Answer == <<"3", " ", "+", " ", "4", " ", "=", " ", "7", " ", "J">>
P_Other == <<"h", "i">>

Payloads == {P_Ack, P_App, P_Accel, P_Question, P_Answer, P_Other}
PayloadsSM == {P_Ack, P_App, P_Other}
PayloadsQ == {P_Question}
\* the texts of the "radio send" commands issued: "hi" and "yo" in turn
SendTexts == IF sendsLeft % 2 = 0 THEN {<<"h", "i">>} ELSE {<<"y", "o">>}
DriverOk == [dis : {TRUE}, tx : {TRUE}, acc : BOOLEAN]

(* ------------------------------------------------------- specifications *)
\* Spec: the state machine with a driver whose requests may fail, frames
\* without contest content, reset indications, and the on/off and contest
\* commands.
Next ==
  \/ \E in \in DriverInputs : RADIO_Handle(in)
  \/ \E in \in DriverInputs : SendUnit(in)
  \/ \E data \in PayloadsSM : RxDone("Success", data)
  \/ RxDone("Overflow", <<>>)
  \/ RxDone("Timeout", <<>>)
  \/ RADIO_ResetIndication
  \/ \E e \in EVNT_RADIO : HandleEvent(e)
  \/ \E name \in {"on", "contest"}, b \in BOOLEAN : CmdFlag(name, b)
  \/ \E text \in SendTexts : CmdSend(text)

Spec == Init /\ [][Next]_vars

\* SpecC: the classifier with every kind of frame, sniffing and contest mode
\* switched by command, and a driver whose requests succeed.
InitC ==
  /\ RADIO_AppStatus = INITIAL
  /\ RADIO_isOn = TRUE
  /\ RADIO_isSniffing = FALSE
  /\ RADIO_isContest = FALSE
  /\ RADIO_TxPacket = [data |-> <<>>, len |-> 0]
  /\ rxMode = "idle"
  /\ events = {}
  /\ RADIO_MsgQueue = <<>>
  /\ pc = "idle"
  /\ sendArg = NoSend
  /\ lastOp = [op |-> "init"]
  /\ drvLog = <<>>
  /\ accepted = <<>>
  /\ delivered = <<>>
  /\ offers = 0
  /\ rxLeft = MaxRxC
  /\ sendsLeft = 1
  /\ RADIO_Channel = 5
  /\ RADIO_OutputPower = 15
  /\ ContestCalcExpectedResultStr = <<>>
  /\ nodes = NoNodes

NextC ==
  \/ \E in \in DriverOk : RADIO_Handle(in)
  \/ \E in \in DriverOk : SendUnit(in)
  \/ \E data \in Payloads : RxDone("Success", data)
  \/ RxDone("Overflow", <<>>)
  \/ RxDone("Timeout", <<>>)
  \/ \E e \in EVNT_RADIO : HandleEvent(e)
  \/ \E name \in {"sniff", "contest"} : CmdFlag(name, TRUE)
  \/ \E text \in SendTexts : CmdSend(text)

SpecC == InitC /\ [][NextC]_vars

\* SpecQ: the queue under burst traffic: contest questions received with
\* sniffing and contest mode switched on, polled by RADIO_Handle.
InitQ ==
  /\ RADIO_AppStatus = INITIAL
  /\ RADIO_isOn = TRUE
  /\ RADIO_isSniffing = FALSE
  /\ RADIO_isContest = FALSE
  /\ RADIO_TxPacket = [data |-> <<>>, len |-> 0]
  /\ rxMode = "idle"
  /\ events = {}
  /\ RADIO_MsgQueue = <<>>
  /\ pc = "idle"
  /\ sendArg = NoSend
  /\ lastOp = [op |-> "init"]
  /\ drvLog = <<>>
  /\ accepted = <<>>
  /\ delivered = <<>>
  /\ offers = 0
  /\ rxLeft = MaxRxQ
  /\ sendsLeft = 1
  /\ RADIO_Channel = 5
  /\ RADIO_OutputPower = 15
  /\ ContestCalcExpectedResultStr = <<>>
  /\ nodes = NoNodes

NextQ ==
  \/ \E in \in DriverOk : RADIO_Handle(in)
  \/ \E in \in DriverOk : SendUnit(in)
  \/ \E data \in PayloadsQ : RxDone("Success", data)
  \/ \E e \in EVNT_RADIO : HandleEvent(e)
  \/ \E name \in {"sniff", "contest"} : CmdFlag(name, TRUE)
  \/ \E text \in SendTexts : CmdSend(text)

SpecQ == InitQ /\ [][NextQ]_vars

\* SpecL: Spec with the scheduling that lets a busy-drain end: the send
\* keeps running and its disable-receive request is eventually granted, a
\* pending event is eventually handled, and an armed bounded-duration
\* receive eventually completes.
InitL ==
  /\ RADIO_AppStatus = INITIAL
  /\ RADIO_isOn = TRUE
  /\ RADIO_isSniffing = FALSE
  /\ RADIO_isContest = FALSE
  /\ RADIO_TxPacket = [data |-> <<>>, len |-> 0]
  /\ rxMode = "idle"
  /\ events = {}
  /\ RADIO_MsgQueue = <<>>
  /\ pc = "idle"
  /\ sendArg = NoSend
  /\ lastOp = [op |-> "init"]
  /\ drvLog = <<>>
  /\ accepted = <<>>
  /\ delivered = <<>>
  /\ offers = 0
  /\ rxLeft = MaxRxL
  /\ sendsLeft = MaxSends
  /\ RADIO_Channel = 5
  /\ RADIO_OutputPower = 15
  /\ ContestCalcExpectedResultStr = <<>>
  /\ nodes = NoNodes

DriverGranted == [dis : {TRUE}, tx : BOOLEAN, acc : BOOLEAN]

Fairness ==
  /\ WF_vars(\E in \in DriverGranted : SendUnit(in))
  /\ WF_vars(\E e \in EVNT_RADIO : HandleEvent(e))
  /\ WF_vars(RxDone("Timeout", <<>>))

SpecL == InitL /\ [][Next]_vars /\ Fairness

\* SpecS: the queue's producer called with payloads around the slot size,
\* and the consumer polling.
MsgSizes == (RADIO_QUEUE_ITEM_SIZE - 3)..MaxMsgSize

InitS ==
  /\ RADIO_AppStatus = INITIAL
  /\ RADIO_isOn = TRUE
  /\ RADIO_isSniffing = FALSE
  /\ RADIO_isContest = FALSE
  /\ RADIO_TxPacket = [data |-> <<>>, len |-> 0]
  /\ rxMode = "idle"
  /\ events = {}
  /\ RADIO_MsgQueue = <<>>
  /\ pc = "idle"
  /\ sendArg = NoSend
  /\ lastOp = [op |-> "init"]
  /\ drvLog = <<>>
  /\ accepted = <<>>
  /\ delivered = <<>>
  /\ offers = 0
  /\ rxLeft = MaxCalls
  /\ sendsLeft = 0
  /\ RADIO_Channel = 5
  /\ RADIO_OutputPower = 15
  /\ ContestCalcExpectedResultStr = <<>>
  /\ nodes = NoNodes

NextS ==
  \/ \E kind \in RADIO_QueueMsgKind, n \in MsgSizes : QueueCall(kind, n)
  \/ \E in \in DriverOk : RADIO_Handle(in)

SpecS == InitS /\ [][NextS]_vars

\* SpecP: the channel and output power set by direct calls with 8-bit values
\* below and above 15, and by the shell commands.
NumberTexts == {<<"5">>, <<"1", "5">>, <<"1", "6">>, <<"3", "7">>, <<"-", "1">>, <<"x">>}

SetValues == {0, 5, 15, 16, 37, 128, 250, 255}

NextP ==
  \/ \E which \in {"channel", "power"}, n \in SetValues : SetCall(which, n)
  \/ \E which \in {"channel", "power"}, arg \in NumberTexts : CmdSet(which, arg)
  \/ \E in \in DriverOk : RADIO_Handle(in)

SpecP == InitS /\ [][NextP]_vars

\* SpecW: the contest: challenges issued by command, answers received in
\* contest mode, polled by RADIO_Handle.
A_Right == <<"3", " ", "+", " ", "4", " ", "=", " ", "7">> \o ContestTrailer
A_Wrong == <<"3", " ", "+", " ", "4", " ", "=", " ", "8">> \o ContestTrailer
PayloadsW == {A_Right, A_Wrong}
ChallengeTexts == {P_Question}

InitW ==
  /\ RADIO_AppStatus = INITIAL
  /\ RADIO_isOn = TRUE
  /\ RADIO_isSniffing = FALSE
  /\ RADIO_isContest = FALSE
  /\ RADIO_TxPacket = [data |-> <<>>, len |-> 0]
  /\ rxMode = "idle"
  /\ events = {}
  /\ RADIO_MsgQueue = <<>>
  /\ pc = "idle"
  /\ sendArg = NoSend
  /\ lastOp = [op |-> "init"]
  /\ drvLog = <<>>
  /\ accepted = <<>>
  /\ delivered = <<>>
  /\ offers = 0
  /\ rxLeft = MaxRxW
  /\ sendsLeft = 1
  /\ RADIO_Channel = 5
  /\ RADIO_OutputPower = 15
  /\ ContestCalcExpectedResultStr = <<>>
  /\ nodes = NoNodes

NextW ==
  \/ \E in \in DriverOk : RADIO_Handle(in)
  \/ \E in \in DriverOk : SendUnit(in)
  \/ \E data \in PayloadsW : RxDone("Success", data)
  \/ \E e \in EVNT_RADIO : HandleEvent(e)
  \/ CmdFlag("contest", TRUE)
  \/ \E text \in ChallengeTexts : CmdChallenge(text)

SpecW == InitW /\ [][NextW]_vars

\* SpecA: the responder: questions "a op b = ?" for operands at the ends
\* and inside the signed 8-bit range are received in contest mode, polled and
\* answered.
OperandsA == {-128, 5, 127}
OperandsB == {-1, 0, 3}
Operators == {"+", "-", "*", "/"}
Questions == {ChallengeString(a, b, op) : a \in OperandsA, b \in OperandsB, op \in Operators}

InitA ==
  /\ RADIO_AppStatus = INITIAL
  /\ RADIO_isOn = TRUE
  /\ RADIO_isSniffing = FALSE
  /\ RADIO_isContest = FALSE
  /\ RADIO_TxPacket = [data |-> <<>>, len |-> 0]
  /\ rxMode = "idle"
  /\ events = {}
  /\ RADIO_MsgQueue = <<>>
  /\ pc = "idle"
  /\ sendArg = NoSend
  /\ lastOp = [op |-> "init"]
  /\ drvLog = <<>>
  /\ accepted = <<>>
  /\ delivered = <<>>
  /\ offers = 0
  /\ rxLeft = MaxRxL
  /\ sendsLeft = 0
  /\ RADIO_Channel = 5
  /\ RADIO_OutputPower = 15
  /\ ContestCalcExpectedResultStr = <<>>
  /\ nodes = NoNodes

NextA ==
  \/ \E in \in DriverOk : RADIO_Handle(in)
  \/ \E in \in DriverOk : SendUnit(in)
  \/ \E data \in Questions : RxDone("Success", data)
  \/ RxDone("Timeout", <<>>)
  \/ \E e \in EVNT_RADIO : HandleEvent(e)
  \/ CmdFlag("contest", TRUE)

SpecA == InitA /\ [][NextA]_vars

\* SpecR: the contest between two nodes of this program, seen from one:
\* a challenge is issued by command, and the frames received are the frames
\* this program builds (the peer's copy of the challenge, and the answer).
InitR ==
  /\ RADIO_AppStatus = INITIAL
  /\ RADIO_isOn = TRUE
  /\ RADIO_isSniffing = FALSE
  /\ RADIO_isContest = FALSE
  /\ RADIO_TxPacket = [data |-> <<>>, len |-> 0]
  /\ rxMode = "idle"
  /\ events = {}
  /\ RADIO_MsgQueue = <<>>
  /\ pc = "idle"
  /\ sendArg = NoSend
  /\ lastOp = [op |-> "init"]
  /\ drvLog = <<>>
  /\ accepted = <<>>
  /\ delivered = <<>>
  /\ offers = 0
  /\ rxLeft = MaxRxW
  /\ sendsLeft = 1
  /\ RADIO_Channel = 5
  /\ RADIO_OutputPower = 15
  /\ ContestCalcExpectedResultStr = <<>>
  /\ nodes = NoNodes

\* the peer sends the frame this node sent last
Echo ==
  /\ RADIO_TxPacket.len > 0
  /\ RxDone("Success", RADIO_TxPacket.data)

NextR ==
  \/ \E in \in DriverOk : RADIO_Handle(in)
  \/ \E in \in DriverOk : SendUnit(in)
  \/ Echo
  \/ RxDone("Timeout", <<>>)
  \/ \E e \in EVNT_RADIO : HandleEvent(e)
  \/ CmdFlag("contest", TRUE)
  \/ \E text \in Questions : CmdChallenge(text)

SpecR == InitR /\ [][NextR]_vars

\* SpecT: SpecL with the task that calls RADIO_Handle running for ever.
FairnessT == Fairness /\ WF_vars(\E in \in DriverInputs : RADIO_Handle(in))

SpecT == InitL /\ [][Next]_vars /\ FairnessT

\* SpecU: the responder with a driver whose requests may fail: a question is
\* received in contest mode, polled and answered.  The task keeps calling
\* RADIO_Handle, a send in progress keeps stepping, the disable-receive
\* request is granted again and again, pending events are handled and an
\* armed bounded receive completes.
\* the frames received: the question first, then frames that are no message
FramesU == IF rxLeft = MaxRxW THEN {P_Question} ELSE {<<"h", "i">>}

NextU ==
  \/ \E in \in DriverInputs : RADIO_Handle(in)
  \/ \E in \in DriverInputs : SendUnit(in)
  \/ \E data \in FramesU : RxDone("Success", data)
  \/ RxDone("Timeout", <<>>)
  \/ \E e \in EVNT_RADIO : HandleEvent(e)
  \/ CmdFlag("contest", TRUE)

\* The task calls RADIO_Handle over and over, and the driver eventually
\* grants the disable request.  The poll that takes a question off the queue
\* needs no fairness: it is the premise of the property checked.
HandleNoQuestion(in) ==
  /\ PolledCount(RADIO_MsgQueue) > 0 => Head(RADIO_MsgQueue).kind # "ContestQuestion"
  /\ RADIO_Handle(in)

FairnessU ==
  /\ WF_vars(\E in \in DriverGranted : SendUnit(in))
  /\ WF_vars(\E in \in DriverGranted : HandleNoQuestion(in))
  /\ WF_vars(\E e \in EVNT_RADIO : HandleEvent(e))
  /\ WF_vars(RxDone("Timeout", <<>>))

SpecU == InitR /\ [][NextU]_vars /\ FairnessU

(* --------------------------------------------------- two nodes, one link *)
\* SpecN: two nodes running this program over one link.  Each node is a
\* record [st, rx, events, tx, pc, arg, sent, asked]: its state, armed
\* receive, pending events, Tx buffer, task context and send in progress,
\* the frame its last operation put on the air, and whether the one send
\* operation of the system was requested at it.  Both nodes are on, with sniffing and contest
\* off, and nothing is queued: the frames on the link are the data frame and
\* the acknowledge.
Node == {"A", "B"}
Other(n) == IF n = "A" THEN "B" ELSE "A"

NodeInit ==
  [st |-> INITIAL, rx |-> "idle", events |-> {},
   tx |-> [data |-> <<>>, len |-> 0], pc |-> "idle", arg |-> NoSend,
   sent |-> <<>>, asked |-> FALSE]

IsTx(entry) == entry.req = "tx"

\* the frame a step put on the air: the frame of its transmit request, when
\* the request succeeded
FrameSent(log, in) ==
  IF in.tx /\ SelectSeq(log, IsTx) # <<>> THEN SelectSeq(log, IsTx)[1].arg ELSE <<>>

\* the receive completion at a node for a frame on the air: a node with no
\* receive armed does not hear it
NodeHeard(node, frame) ==
  IF frame = <<>> \/ node.rx = "idle" THEN node
  ELSE [node EXCEPT
          !.events = @ \cup SeqToSet(RADIO_DataIndicationPacket("Success", frame,
                                                                node.st, FALSE, FALSE).ev),
          !.rx = "idle"]

\* node n, prepared as node, makes a step of the state machine with result m
NodeSteps(n, node, m, in) ==
  /\ nodes' = [nodes EXCEPT
                 ![n] = [node EXCEPT !.st = m.st, !.rx = m.d.rx,
                                     !.sent = FrameSent(m.d.log, in)],
                 ![Other(n)] = NodeHeard(@, FrameSent(m.d.log, in))]
  /\ UNCHANGED oneNode

\* RADIO_Handle at node n: the queue is empty, nothing is polled
NodeHandle(n, in) ==
  /\ nodes[n].pc = "idle"
  /\ NodeSteps(n, nodes[n],
               RADIO_HandleState(nodes[n].st, [rx |-> nodes[n].rx, log |-> <<>>],
                                 nodes[n].tx, FALSE, in),
               in)

\* RADIO_SendString at node n is called: the one send of the system
NodeSend(n, text) ==
  /\ nodes[n].pc = "idle"
  /\ \A k \in Node : ~nodes[k].asked
  /\ nodes' = [nodes EXCEPT
                 ![n] = [@ EXCEPT !.pc = "drain", !.asked = TRUE, !.sent = <<>>,
                                  !.arg = [prefix |-> TRUE, data |-> text,
                                           from |-> nodes[n].st, calc |-> NoCalc]]]
  /\ UNCHANGED oneNode

\* one unit of the send in progress at node n: a step while the state machine
\* is not ready, else the load of the Tx buffer and the step in TransmitData
NodeSendUnit(n, in) ==
  /\ nodes[n].pc = "drain"
  /\ IF ~SendReady(nodes[n].st)
     THEN NodeSteps(n, nodes[n],
                    RADIO_HandleState(nodes[n].st, [rx |-> nodes[n].rx, log |-> <<>>],
                                      nodes[n].tx, FALSE, in),
                    in)
     ELSE NodeSteps(n, [nodes[n] EXCEPT !.tx = LoadTxPacket(nodes[n].arg),
                                        !.pc = "idle", !.arg = NoSend],
                    RADIO_HandleState(TRANSMIT_DATA, [rx |-> nodes[n].rx, log |-> <<>>],
                                      LoadTxPacket(nodes[n].arg), FALSE, in),
                    in)

\* a pending event is handled at node n
NodeEvent(n, e) ==
  /\ e \in nodes[n].events
  /\ nodes' = [nodes EXCEPT
                 ![n] = [@ EXCEPT !.st = RADIO_AppHandleEvent(nodes[n].st, e),
                                  !.events = @ \ {e}, !.sent = <<>>]]
  /\ UNCHANGED oneNode

\* the timed receive of node n ends with no frame
NodeTimeout(n) ==
  /\ nodes[n].rx = "timed"
  /\ nodes' = [nodes EXCEPT
                 ![n] = [@ EXCEPT
                           !.events = @ \cup SeqToSet(RADIO_DataIndicationPacket(
                                          "Timeout", <<>>, nodes[n].st, FALSE, FALSE).ev),
                           !.rx = "idle", !.sent = <<>>]]
  /\ UNCHANGED oneNode

InitN ==
  /\ RADIO_AppStatus = INITIAL
  /\ RADIO_isOn = TRUE
  /\ RADIO_isSniffing = FALSE
  /\ RADIO_isContest = FALSE
  /\ RADIO_TxPacket = [data |-> <<>>, len |-> 0]
  /\ rxMode = "idle"
  /\ events = {}
  /\ RADIO_MsgQueue = <<>>
  /\ pc = "idle"
  /\ sendArg = NoSend
  /\ lastOp = [op |-> "init"]
  /\ drvLog = <<>>
  /\ accepted = <<>>
  /\ delivered = <<>>
  /\ offers = 0
  /\ rxLeft = 0
  /\ sendsLeft = 0
  /\ RADIO_Channel = 5
  /\ RADIO_OutputPower = 15
  /\ ContestCalcExpectedResultStr = <<>>
  /\ nodes = [n \in Node |-> NodeInit]

NextN ==
  \/ \E n \in Node, in \in DriverInputs : NodeHandle(n, in)
  \/ \E n \in Node, in \in DriverInputs : NodeSendUnit(n, in)
  \/ \E n \in Node : NodeSend(n, <<"h", "i">>)
  \/ \E n \in Node, e \in EVNT_RADIO : NodeEvent(n, e)
  \/ \E n \in Node : NodeTimeout(n)

\* Each node's task keeps calling RADIO_Handle, a send in progress keeps
\* stepping, the driver eventually grants the disable request, pending events
\* are dispatched and a timed receive ends.
FairnessN ==
  \A n \in Node :
    /\ WF_vars(\E in \in DriverGranted : NodeHandle(n, in))
    /\ WF_vars(\E in \in DriverGranted : NodeSendUnit(n, in))
    /\ WF_vars(\E e \in EVNT_RADIO : NodeEvent(n, e))
    /\ WF_vars(NodeTimeout(n))

SpecN == InitN /\ [][NextN]_vars /\ FairnessN


(* ------------------------------------------------------------- claims *)
\* the target state the event mapping gives each event
EventTarget(e) ==
  CASE e = "Reset" -> RESET
    [] e = "Data" -> TRANSMIT_ACK
    [] e \in {"Timeout", "Ack", "Overflow", "Unknown"} -> RECEIVER_ALWAYS_ON

\* C1: RADIO_AppHandleEvent is a total re-assignment: for each of the 7
\* states and each of the 6 events the new state is the event's target,
\* whatever the state was, and the state after an event was handled is that
\* target.
C1_EventTotal ==
  /\ \A st \in RADIO_AppStatusKind, e \in EVNT_RADIO :
       RADIO_AppHandleEvent(st, e) = EventTarget(e)
  /\ lastOp.op = "event" => RADIO_AppStatus = EventTarget(lastOp.ev)

\* an Unknown event was handled while the machine was waiting for an ack
C1_Witness ==
  /\ lastOp.op = "event"
  /\ lastOp.ev = "Unknown"
  /\ lastOp.pre = WAITING_FOR_ACK
  /\ RADIO_AppStatus = RECEIVER_ALWAYS_ON

\* C2: at most one radio operation is outstanding: no enable-receive request
\* and no transmit request (data or ack) is issued while a receive is armed.
C2_OneOperation ==
  \A i \in 1..Len(drvLog) :
    drvLog[i].req \in {"enable", "tx"} => ~drvLog[i].armed

\* C3: a send writes the Tx buffer only at a moment when the state is
\* ReadyForTxRx (so no transmit of an earlier frame is pending), and nothing
\* but the load of a send changes the Tx buffer.
C3_LoadWhenReady ==
  [][ /\ lastOp'.op = "load" =>
           (pc = "drain" /\ RADIO_AppStatus = READY_FOR_TX_RX_DATA)
      /\ RADIO_TxPacket' # RADIO_TxPacket => lastOp'.op = "load" ]_vars

\* the second of two sends, called while the first frame's transmit was
\* still being retried, has loaded its own frame
C3_Witness ==
  /\ lastOp.op = "load"
  /\ lastOp.from = TRANSMIT_DATA
  /\ sendsLeft <= MaxSends - 2
  /\ RADIO_TxPacket.data = RADIO_PREFIX_STR \o <<"y", "o">>

\* C5: WaitingForAck is passive and is left only by handling an Ack or a
\* Timeout event.
C5_LeftByAckOrTimeout ==
  [][ (RADIO_AppStatus = WAITING_FOR_ACK /\ RADIO_AppStatus' # WAITING_FOR_ACK)
        => (lastOp'.op = "event" /\ lastOp'.ev \in {"Ack", "Timeout"}) ]_vars

BeginsWith(s, t) == Len(s) >= Len(t) /\ SubSeq(s, 1, Len(t)) = t

RxSuccess == lastOp.op = "rxdone" /\ lastOp.status = "Success"

\* C6: a good packet that begins with prefix+ack raises Ack if and only if
\* the state at the callback is WaitingForAck; in any other state it raises
\* Data (the callback leaves the state unchanged, so the state after it is
\* the state it saw).
C6_AckOnlyWhenWaiting ==
  (RxSuccess /\ BeginsWith(lastOp.data, RADIO_PREFIX_STR \o RADIO_ACK_STR)) =>
    /\ ("Ack" \in SeqToSet(lastOp.ev)) <=> (RADIO_AppStatus = WAITING_FOR_ACK)
    /\ RADIO_AppStatus # WAITING_FOR_ACK => lastOp.ev = <<"Data">>

\* the ack frame arrived while the machine was waiting for it
C6_Witness ==
  /\ RxSuccess
  /\ lastOp.data = P_Ack
  /\ RADIO_AppStatus = WAITING_FOR_ACK
  /\ lastOp.ev = <<"Ack">>

\* the event a completion raises, by the fixed priority of the classification
ExpectedEvent(status, data, st, contest) ==
  IF status = "Timeout" THEN "Timeout"
  ELSE IF status = "Overflow" THEN "Overflow"
  ELSE IF st = WAITING_FOR_ACK /\ BeginsWith(data, RADIO_PREFIX_STR \o RADIO_ACK_STR)
       THEN "Ack"
  ELSE IF contest /\ IsContestMessage(data).ok THEN "Data"
  ELSE IF BeginsWith(data, RADIO_PREFIX_STR) THEN "Data"
  ELSE "Unknown"

\* C7: every completion raises exactly one event, the first that applies in
\* the fixed priority; a contest expression received in contest mode (and
\* not taken as the ack) is queued as ContestQuestion when it ends in '?'
\* and as ContestAnswer otherwise, and nothing else is queued as either.
C7_Classification ==
  lastOp.op = "rxdone" =>
    LET viaContest ==
          /\ lastOp.status = "Success"
          /\ ~(RADIO_AppStatus = WAITING_FOR_ACK
               /\ BeginsWith(lastOp.data, RADIO_PREFIX_STR \o RADIO_ACK_STR))
          /\ RADIO_isContest
          /\ IsContestMessage(lastOp.data).ok
        isQ == lastOp.data[Len(lastOp.data)] = "?"
        kinds == SeqToSet(lastOp.enq)
    IN /\ lastOp.ev = <<ExpectedEvent(lastOp.status, lastOp.data, RADIO_AppStatus,
                                       RADIO_isContest)>>
       /\ ("ContestQuestion" \in kinds) <=> (viaContest /\ isQ)
       /\ ("ContestAnswer" \in kinds) <=> (viaContest /\ ~isQ)

\* a contest answer was received in contest mode
C7_Witness ==
  /\ RxSuccess
  /\ lastOp.data = P_Answer
  /\ RADIO_isContest
  /\ lastOp.ev = <<"Data">>
  /\ lastOp.enq = <<"ContestAnswer">>

Kinds(q) == [i \in 1..Len(q) |-> q[i].kind]
Ids(q) == [i \in 1..Len(q) |-> q[i].id]

\* the slots the last completion stored
StoredNow == SubSeq(RADIO_MsgQueue, lastOp.before + 1, Len(RADIO_MsgQueue))

\* the longest prefix of the calls for which a slot was free
Fitting(calls, before) ==
  SubSeq(calls, 1, Min(Len(calls), RADIO_QUEUE_NOF_ITEMS - before))

\* the completion as it would be classified with sniffing disabled
Unsniffed ==
  RADIO_DataIndicationPacket(lastOp.status, lastOp.data, RADIO_AppStatus, FALSE,
                             RADIO_isContest)

\* C8 (as stated): for every good packet, with sniffing enabled a Sniff copy
\* is enqueued and the event raised and the other messages enqueued are
\* those of the same completion with sniffing disabled; with sniffing
\* disabled no Sniff message is enqueued.
C8_SniffNonExclusive ==
  RxSuccess =>
    LET stored == Kinds(StoredNow)
    IN /\ RADIO_isSniffing =>
            /\ stored # <<>>
            /\ Head(stored) = "Sniff"
            /\ lastOp.ev = Unsniffed.ev
            /\ Tail(stored) = Fitting(Unsniffed.enq, lastOp.before)
       /\ ~RADIO_isSniffing => "Sniff" \notin SeqToSet(stored)

\* C8 (amended): with sniffing enabled the Sniff copy is offered to the queue
\* first, and the event raised and the other QueueMessage calls are those of
\* the same completion with sniffing disabled; with sniffing disabled no
\* Sniff copy is offered; the messages offered are stored in that order as
\* long as a slot is free, and a stored Sniff slot holds the payload.
C8_SniffOffered ==
  RxSuccess =>
    /\ RADIO_isSniffing =>
         /\ lastOp.enq # <<>>
         /\ Head(lastOp.enq) = "Sniff"
         /\ lastOp.ev = Unsniffed.ev
         /\ Tail(lastOp.enq) = Unsniffed.enq
    /\ ~RADIO_isSniffing => "Sniff" \notin SeqToSet(lastOp.enq)
    /\ Kinds(StoredNow) = Fitting(lastOp.enq, lastOp.before)
    /\ \A i \in 1..Len(StoredNow) :
         StoredNow[i].kind = "Sniff" => CStr(StoredNow[i].data) = lastOp.data

\* with one slot free the Sniff copy took it and the question was dropped
C8_Witness ==
  /\ RxSuccess
  /\ RADIO_isSniffing
  /\ lastOp.before = RADIO_QUEUE_NOF_ITEMS - 1
  /\ lastOp.enq = <<"Sniff", "ContestQuestion">>
  /\ Kinds(StoredNow) = <<"Sniff">>

\* more than 8 messages were offered before the first was polled
BurstDropped == offers >= 9 /\ 9 \notin SeqToSet(accepted)

\* C9: the queue never holds more than 8 slots, a QueueMessage call made
\* while it holds 8 leaves it unchanged, and after more than 8 messages were
\* enqueued without draining, the first 8 messages polled are the first 8
\* enqueued, in order.
C9_FullQueueDrops ==
  /\ [](/\ Len(RADIO_MsgQueue) <= 8
        /\ BurstDropped =>
             LET all == delivered \o Ids(RADIO_MsgQueue)
             IN /\ Len(all) >= 8 => SubSeq(all, 1, 8) = <<1, 2, 3, 4, 5, 6, 7, 8>>
                /\ Len(all) < 8 => all = SubSeq(<<1, 2, 3, 4, 5, 6, 7, 8>>, 1, Len(all)))
  /\ [][(Len(RADIO_MsgQueue) = 8 /\ lastOp'.op = "rxdone")
          => RADIO_MsgQueue' = RADIO_MsgQueue]_vars

\* ten messages were offered to the empty queue and the eight stored were
\* then polled
C9_Witness ==
  /\ BurstDropped
  /\ offers > 9
  /\ delivered = <<1, 2, 3, 4, 5, 6, 7, 8>>
  /\ RADIO_MsgQueue = <<>>

\* C10: the messages handed to RADIO_HandleMessage are the accepted messages,
\* each once and in the order enqueued, and one call of RADIO_Handle takes
\* at most one message from the queue.
C10_FifoOnce ==
  /\ [](/\ delivered \o Ids(RADIO_MsgQueue) = accepted
        /\ \A i, j \in 1..Len(accepted) : i < j => accepted[i] < accepted[j])
  /\ [][lastOp'.op = "handle" =>
          /\ Len(RADIO_MsgQueue') >= Len(RADIO_MsgQueue) - 1
          /\ Len(delivered') <= Len(delivered) + 1]_vars

\* messages were polled while others were queued behind them and one was dropped
C10_Witness ==
  /\ Len(delivered) >= 2
  /\ Len(RADIO_MsgQueue) >= 2
  /\ offers > Len(accepted)

\* the bytes one slot takes: kind, length and the payload stored
EncodedSize(slot) == 2 + Len(slot.data)

C12_TimeoutToReceive ==
  [][/\ (lastOp'.op = "rxdone" /\ lastOp'.status = "Timeout")
          => /\ "Timeout" \in events'
             /\ RADIO_AppStatus' = RADIO_AppStatus
             /\ RADIO_TxPacket' = RADIO_TxPacket
     /\ (lastOp'.op = "event" /\ lastOp'.ev = "Timeout")
          => /\ RADIO_AppStatus' = RECEIVER_ALWAYS_ON
             /\ RADIO_TxPacket' = RADIO_TxPacket]_vars

\* the Timeout event of a send's bounded receive was handled in WaitingForAck
C12_Witness ==
  /\ lastOp.op = "event"
  /\ lastOp.ev = "Timeout"
  /\ lastOp.pre = WAITING_FOR_ACK
  /\ RADIO_AppStatus = RECEIVER_ALWAYS_ON
  /\ RADIO_TxPacket.len > 0

\* C13: for every 8-bit n, SetChannel(n) makes the channel n mod 16 and
\* SetOutputPower(n) makes the output power n mod 16, the value is forwarded
\* to the driver and no input is rejected; the stored channel and output
\* power are in 0..15 in every reachable state.
C13_MaskedTo4Bits ==
  /\ [](RADIO_Channel \in 0..15 /\ RADIO_OutputPower \in 0..15)
  /\ [][(lastOp'.op = "set") =>
          /\ lastOp'.which = "channel" =>
               /\ RADIO_Channel' = lastOp'.n % 16
               /\ drvLog'[1].req = "channel" /\ drvLog'[1].arg = lastOp'.n % 16
          /\ lastOp'.which = "power" =>
               /\ RADIO_OutputPower' = lastOp'.n % 16
               /\ drvLog'[1].req = "power" /\ drvLog'[1].arg = lastOp'.n % 16]_vars
  /\ \A n \in UInt8 : ChannelOf(n) = n % 16 /\ PowerOf(n) = n % 16

\* SetChannel(37) made the channel 5 and SetOutputPower(250) the power 10
C13_Witness ==
  /\ lastOp.op = "set"
  /\ \/ lastOp.which = "channel" /\ lastOp.n = 37 /\ RADIO_Channel = 5
     \/ lastOp.which = "power" /\ lastOp.n = 250 /\ RADIO_OutputPower = 10

\* msg agrees with the cached string over the cached string's length
MatchesExpected(msg, expected) ==
  \A i \in 1..Len(expected) : At(msg, i) = expected[i]

\* C14: when a ContestAnswer message is dequeued, a winner is reported if
\* and only if the answer agrees with the cached expected-answer string over
\* the length of the cached string.  Stated for a cached string set by a
\* challenge (with nothing cached the comparison is over no characters).
C14_WinIffMatch ==
  [][(/\ lastOp'.op = "handle"
      /\ ContestCalcExpectedResultStr # <<>>
      /\ RADIO_MsgQueue # <<>>
      /\ Head(RADIO_MsgQueue).kind = "ContestAnswer")
     => (lastOp'.win <=> MatchesExpected(Head(RADIO_MsgQueue).data,
                                         ContestCalcExpectedResultStr))]_vars

\* the decimal numeral of the integer n
Numeral(n) == IF n < 0 THEN <<"-">> \o NumToStr(0 - n) ELSE NumToStr(n)

\* the question text "a op b = ?" and the text before the result of its answer
QuestionText(a, b, op) == Numeral(a) \o <<" ", op, " ">> \o Numeral(b) \o <<" ", "=", " ", "?">>
AnswerHead(a, b, op) == Numeral(a) \o <<" ", op, " ">> \o Numeral(b) \o <<" ", "=", " ">>

\* RADIO_Handle polls the question "a op b = ?" with the radio on
PollsQuestion(a, b, op) ==
  /\ lastOp'.op = "handle"
  /\ RADIO_isOn
  /\ RADIO_MsgQueue # <<>>
  /\ Head(RADIO_MsgQueue).kind = "ContestQuestion"
  /\ CStr(Head(RADIO_MsgQueue).data) = QuestionText(a, b, op)

\* C15: for every signed 8-bit a the answer formatted for a / 0 has the
\* token ERROR in place of the result, for every b other than 0 it has the
\* integer quotient of a and b, and the trailer follows in both cases.
C15_DivisionAnswer ==
  [][\A a \in OperandsA, b \in OperandsB :
       PollsQuestion(a, b, "/") =>
         sendArg'.data = AnswerHead(a, b, "/")
                         \o (IF b = 0 THEN <<"E", "R", "R", "O", "R">>
                             ELSE Numeral(CDiv(a, b)))
                         \o ContestTrailer]_vars

\* the values of a signed 8-bit operand
Int8 == -128..127

\* the answer to "a op b = ?" has a number as its result
NumericAnswer(b, op) == ~(op = "/" /\ b = 0)

\* C16: for signed 8-bit a and b and op in {+,-,*,/} the challenge text
\* "a op b = ?" built by the challenge command is accepted by
\* IsContestMessage as a question with the operands a and b and the operator
\* op, and the answer text "a op b = <number> <trailer>" is accepted as an
\* answer.  Stated of the parser for every a, and of the program's steps:
\* the command sends the text of the challenge it parsed, a received
\* challenge is queued as a question and answered from its operands, and a
\* received numeric answer is queued as an answer.
C16_RoundTrip ==
  /\ \A a \in Int8, b \in OperandsA \cup OperandsB, op \in Operators :
       /\ IsContestMessage(ChallengeString(a, b, op))
            = [ok |-> TRUE, isQuestion |-> TRUE, a |-> a, b |-> b, op |-> op]
       /\ NumericAnswer(b, op) =>
            IsContestMessage(CalcResultString(36, a, b, op))
              = [ok |-> TRUE, isQuestion |-> FALSE, a |-> a, b |-> b, op |-> op]
  /\ [][\A a \in OperandsA, b \in OperandsB, op \in Operators :
          /\ (lastOp'.op = "challenge" /\ RADIO_isOn
              /\ lastOp'.text = QuestionText(a, b, op))
               => /\ sendArg'.data = QuestionText(a, b, op)
                  /\ sendArg'.calc = [a |-> a, b |-> b, op |-> op]
          /\ (lastOp'.op = "rxdone" /\ lastOp'.status = "Success" /\ RADIO_isContest
              /\ lastOp'.data = QuestionText(a, b, op))
               => lastOp'.enq = <<"ContestQuestion">>
          /\ PollsQuestion(a, b, op)
               => sendArg'.data = CalcResultString(36, a, b, op)
          /\ (lastOp'.op = "rxdone" /\ lastOp'.status = "Success" /\ RADIO_isContest
              /\ NumericAnswer(b, op)
              /\ lastOp'.data = CalcResultString(36, a, b, op))
               => lastOp'.enq = <<"ContestAnswer">>]_vars

\* the answer to the challenge "-128 - 3 = ?" came back and was queued as an
\* answer
C16_Witness ==
  /\ lastOp.op = "rxdone"
  /\ lastOp.enq = <<"ContestAnswer">>
  /\ lastOp.data = AnswerHead(-128, 3, "-") \o Numeral(125) \o ContestTrailer
  /\ ContestCalcExpectedResultStr # <<>>

\* the last step was one call of the step function and nothing before it
StepTaken == (lastOp'.op = "handle" /\ RADIO_isOn) \/ lastOp'.op = "drain"

\* C17: once a Reset event is handled the state is Reset; with the radio on
\* and the step function called again and again, the steps take the state
\* from Reset to Initial with exactly one reinitialisation of the driver,
\* from Initial to ReceiveAlwaysOn, and on to ReadyForTxRx with a
\* wait-forever receive armed, unless an event is handled in between.
C17_ResetRecovery ==
  /\ [][/\ (lastOp'.op = "event" /\ lastOp'.ev = "Reset") => RADIO_AppStatus' = RESET
        /\ (StepTaken /\ RADIO_AppStatus = RESET)
             => /\ RADIO_AppStatus' = INITIAL
                /\ Len(drvLog') = 1 /\ drvLog'[1].req = "init"
        /\ (StepTaken /\ RADIO_AppStatus = INITIAL)
             => RADIO_AppStatus' = RECEIVER_ALWAYS_ON /\ drvLog' = <<>>
        /\ (StepTaken /\ RADIO_AppStatus = RECEIVER_ALWAYS_ON)
             => /\ RADIO_AppStatus' = READY_FOR_TX_RX_DATA
                /\ Len(drvLog') = 1 /\ drvLog'[1].req = "enable"
                /\ drvLog'[1].arg = "forever"
        /\ (StepTaken /\ RADIO_AppStatus # RESET)
             => \A i \in 1..Len(drvLog') : drvLog'[i].req # "init"]_vars
  /\ (lastOp.op = "event" /\ lastOp.ev = "Reset" /\ RADIO_AppStatus = RESET)
       ~> \/ RADIO_AppStatus = READY_FOR_TX_RX_DATA /\ rxMode = "forever"
          \/ lastOp.op = "event" /\ lastOp.ev # "Reset"
          \/ ~RADIO_isOn

\* the step after a handled Reset event reinitialised the driver
C17_Witness ==
  /\ RADIO_isOn
  /\ RADIO_AppStatus = INITIAL
  /\ Len(drvLog) = 1
  /\ drvLog[1].req = "init"

\* a transmit request carrying frame was issued by the last step
TxIssued(frame) ==
  \E i \in 1..Len(drvLog) : drvLog[i].req = "tx" /\ drvLog[i].arg = frame

\* C18: whenever the question "3 + 4 = ?" is dequeued with the radio on (the
\* raw send of its answer begins), a transmit request carrying the raw
\* answer "3 + 4 = 7 Joe TheBest!" is eventually issued.
C18_QuestionAnswered ==
  (lastOp.op = "handle" /\ pc = "drain" /\ sendArg.data = A_Right /\ ~sendArg.prefix)
    ~> TxIssued(A_Right)

\* a step of the state machine taken in TransmitData, in the driver results:
\* by RADIO_Handle, or by a send (after it forced the state, or while it waits)
StepInTransmitData(in) ==
  \/ pc = "idle" /\ RADIO_isOn /\ RADIO_AppStatus = TRANSMIT_DATA /\ RADIO_Handle(in)
  \/ /\ pc = "drain"
     /\ RADIO_AppStatus \in {TRANSMIT_DATA, READY_FOR_TX_RX_DATA}
     /\ SendUnit(in)

\* the Tx buffer the step works on: the one just loaded, or the one in place
StepTxPacket == IF lastOp'.op = "load" THEN LoadTxPacket(sendArg) ELSE RADIO_TxPacket

\* C19: every step taken in TransmitData issues the disable-receive request
\* first; when it fails the state stays TransmitData, no transmit and no
\* enable-receive request is issued, the armed receive and the Tx buffer are
\* unchanged, and nothing counts the attempt: the next step is in the same
\* position and tries again.
C19_DisableFailRetry ==
  [][\A in \in DriverInputs :
       StepInTransmitData(in)
         => /\ drvLog' # <<>> /\ drvLog'[1].req = "disable"
            /\ ~in.dis
                 => /\ RADIO_AppStatus' = TRANSMIT_DATA
                    /\ Len(drvLog') = 1
                    /\ rxMode' = rxMode
                    /\ RADIO_TxPacket' = StepTxPacket
                    /\ UNCHANGED flags]_vars

\* a retry made by RADIO_Handle failed again
C19_Witness ==
  /\ lastOp.op = "handle" /\ RADIO_isOn
  /\ RADIO_AppStatus = TRANSMIT_DATA
  /\ Len(drvLog) = 1 /\ drvLog[1].req = "disable"

\* C20: a step taken in TransmitData whose disable-receive succeeds issues
\* the transmit request for the Tx buffer; when that succeeds a timed receive
\* is requested and armed and the state becomes WaitingForAck (ReceiveAlwaysOn
\* in contest mode); when it fails no enable-receive request is issued, no
\* receive is armed and the state becomes ReceiveAlwaysOn.
C20_AfterDisable ==
  [][\A in \in DriverInputs :
       (in.dis /\ StepInTransmitData(in))
         => /\ Len(drvLog') >= 2
            /\ drvLog'[2].req = "tx" /\ drvLog'[2].arg = StepTxPacket.data
            /\ in.tx
                 => /\ Len(drvLog') = 3
                    /\ drvLog'[3].req = "enable" /\ drvLog'[3].arg = "timed"
                    /\ rxMode' = "timed"
                    /\ RADIO_AppStatus' = IF RADIO_isContest THEN RECEIVER_ALWAYS_ON
                                          ELSE WAITING_FOR_ACK
            /\ ~in.tx
                 => /\ Len(drvLog') = 2
                    /\ rxMode' = "idle"
                    /\ RADIO_AppStatus' = RECEIVER_ALWAYS_ON]_vars

\* a send in contest mode transmitted its frame and armed the timed receive
C20_Witness ==
  /\ lastOp.op = "load" /\ RADIO_isContest
  /\ RADIO_AppStatus = RECEIVER_ALWAYS_ON
  /\ rxMode = "timed"
  /\ Len(drvLog) = 3 /\ drvLog[2].req = "tx"

\* C21: one step of the state machine (by RADIO_Handle with the radio on, or
\* by a waiting send) takes Initial to ReceiveAlwaysOn with no driver request,
\* ReceiveAlwaysOn to ReadyForTxRx with exactly one wait-forever enable
\* request, leaves ReadyForTxRx in place with no driver request, in
\* TransmitAck issues exactly one transmit request carrying prefix+ack and
\* goes to ReceiveAlwaysOn, and takes Reset to Initial; of the steps, only the
\* one made by a send that loads the Tx buffer takes the state out of
\* ReadyForTxRx.
C21_TransitionTable ==
  [][/\ (StepTaken /\ RADIO_AppStatus = INITIAL)
          => RADIO_AppStatus' = RECEIVER_ALWAYS_ON /\ drvLog' = <<>>
     /\ (StepTaken /\ RADIO_AppStatus = RECEIVER_ALWAYS_ON)
          => /\ RADIO_AppStatus' = READY_FOR_TX_RX_DATA
             /\ Len(drvLog') = 1
             /\ drvLog'[1].req = "enable" /\ drvLog'[1].arg = "forever"
     /\ (StepTaken /\ RADIO_AppStatus = READY_FOR_TX_RX_DATA)
          => RADIO_AppStatus' = READY_FOR_TX_RX_DATA /\ drvLog' = <<>>
     /\ (StepTaken /\ RADIO_AppStatus = TRANSMIT_ACK)
          => /\ RADIO_AppStatus' = RECEIVER_ALWAYS_ON
             /\ Len(drvLog') = 1
             /\ drvLog'[1].req = "tx"
             /\ drvLog'[1].arg = RADIO_PREFIX_STR \o RADIO_ACK_STR
     /\ (StepTaken /\ RADIO_AppStatus = RESET) => RADIO_AppStatus' = INITIAL
     /\ (/\ StepTaken \/ lastOp'.op = "load"
         /\ RADIO_AppStatus = READY_FOR_TX_RX_DATA
         /\ RADIO_AppStatus' # READY_FOR_TX_RX_DATA)
          => lastOp'.op = "load" /\ RADIO_TxPacket' = LoadTxPacket(sendArg)]_vars

\* a step in TransmitAck sent the acknowledge frame
C21_Witness ==
  /\ lastOp.op \in {"handle", "drain"}
  /\ RADIO_AppStatus = RECEIVER_ALWAYS_ON
  /\ Len(drvLog) = 1 /\ drvLog[1].req = "tx"
  /\ drvLog[1].arg = RADIO_PREFIX_STR \o RADIO_ACK_STR

\* the mathematical value of a op b for op one of + - *
ExactValue(a, b, op) == IF op = "+" THEN a + b ELSE IF op = "-" THEN a - b ELSE a * b

\* C22: for signed 8-bit operands a and b and op one of + - *, the answer
\* formatted for the question "a op b = ?" has the decimal numeral of the
\* mathematical value of a op b as its result, also when that value is outside
\* the signed 8-bit range.
C22_ExactArithmetic ==
  [][\A a \in OperandsA, b \in OperandsB, op \in {"+", "-", "*"} :
       PollsQuestion(a, b, op) =>
         sendArg'.data = AnswerHead(a, b, op) \o Numeral(ExactValue(a, b, op))
                         \o ContestTrailer]_vars

\* C23: the state is TransmitData between two operations only while a loaded
\* frame waits for its transmit request.  Whatever operation takes the state
\* out of TransmitData (a step, or the handling of an event) issues a transmit
\* request carrying the Tx buffer, and so does the send that loads the buffer
\* when its own step leaves TransmitData.
C23_NoSendLost ==
  [][/\ (RADIO_AppStatus = TRANSMIT_DATA /\ RADIO_AppStatus' # TRANSMIT_DATA)
          => \E i \in 1..Len(drvLog') :
               drvLog'[i].req = "tx" /\ drvLog'[i].arg = RADIO_TxPacket.data
     /\ (lastOp'.op = "load" /\ RADIO_AppStatus' # TRANSMIT_DATA)
          => \E i \in 1..Len(drvLog') :
               drvLog'[i].req = "tx" /\ drvLog'[i].arg = RADIO_TxPacket'.data]_vars

\* C24: in the system of two nodes with one send operation, from some time
\* on both nodes are in ReadyForTxRx and no frame is put on the air.
C24_AckTerminates ==
  <>[](\A n \in Node : nodes[n].st = READY_FOR_TX_RX_DATA /\ nodes[n].sent = <<>>)

====
